---------------------------- MODULE Spec2Model ----------------------------
(***************************************************************************)
(* Model of kernelci/runtime/lava/__init__.py: the LAVA runtime's job      *)
(* parameter preparation (LavaRuntime.generate and its helpers).           *)
(*                                                                         *)
(* Python values are modelled as follows.                                  *)
(*   str        a TLA+ string; s[i] is written Char(s, i)                  *)
(*   int        an integer; int(x / 100) is truncation toward zero         *)
(*   dict       a function whose DOMAIN is the set of keys present         *)
(*   None       a value that may be None (dict.get of a missing key, an    *)
(*              unmatched group, an optional integer of the runtime        *)
(*              config, the value stored under 'callback_type') is a set:  *)
(*              {} is None and {v} is the value v, so that the str 'None'  *)
(*              and the empty str are values like any other                *)
(*   exception  a record [err |-> <exception name>]                        *)
(***************************************************************************)
EXTENDS Integers, Sequences, FiniteSets, TLC

(***************************************************************************)
(* Bounds of the model.                                                    *)
(***************************************************************************)
\* generate calls made in a row on one params mapping
MaxCalls == 2
\* length of the fragment words enumerated after the leading '+'
MaxFragLen == 3
\* priority_min and priority_max range over -MaxLevel..MaxLevel
MaxLevel == 6

(***************************************************************************)
(* Strings.                                                                *)
(***************************************************************************)
\* a value that may be None: {} is None, {v} is the value v
None == {}
Some(v) == {v}
IsNone(o) == o = None
Val(o) == CHOOSE v \in o : TRUE

Char(s, i) == SubSeq(s, i, i)

Digits == {"0", "1", "2", "3", "4", "5", "6", "7", "8", "9"}

Lower == {"a", "b", "c", "d", "e", "f", "g", "h", "i", "j", "k", "l", "m",
          "n", "o", "p", "q", "r", "s", "t", "u", "v", "w", "x", "y", "z"}

\* str.startswith(lit), at offset i (1-based)
StartsAt(s, i, lit) ==
    /\ i + Len(lit) - 1 <= Len(s)
    /\ SubSeq(s, i, i + Len(lit) - 1) = lit

Max(S) == CHOOSE m \in S : \A x \in S : x <= m
Min(S) == CHOOSE m \in S : \A x \in S : m <= x

\* the element of a one-element set; The({F(x) : x \in {e}}) is F(e) with e
\* evaluated once
The(S) == CHOOSE x \in S : TRUE

\* number of consecutive characters of s, from position i on, that are in C:
\* what a greedy  [C]*  consumes
Span(s, i, C) ==
    Min({n \in 0..Len(s) : i + n > Len(s) \/ Char(s, i + n) \notin C})

\* sep.join(parts)
RECURSIVE StrJoin(_, _)
StrJoin(sep, parts) ==
    IF Len(parts) = 0 THEN ""
    ELSE IF Len(parts) = 1 THEN parts[1]
    ELSE parts[1] \o sep \o StrJoin(sep, Tail(parts))

\* s.replace(old, new) for a one-character old: every character of s that
\* is old replaced, the two halves of s one after the other
RECURSIVE StrReplace(_, _, _)
StrReplace(s, old, new) ==
    IF Len(s) = 0 THEN ""
    ELSE IF Len(s) = 1 THEN (IF s = old THEN new ELSE s)
    ELSE StrReplace(SubSeq(s, 1, Len(s) \div 2), old, new)
             \o StrReplace(SubSeq(s, Len(s) \div 2 + 1, Len(s)), old, new)

RECURSIVE LStrip(_, _)
LStrip(s, c) ==
    IF Len(s) > 0 /\ Char(s, 1) = c THEN LStrip(Tail(s), c) ELSE s

RECURSIVE RStrip(_, _)
RStrip(s, c) ==
    IF Len(s) > 0 /\ Char(s, Len(s)) = c
    THEN RStrip(SubSeq(s, 1, Len(s) - 1), c) ELSE s

\* s.strip(c): every leading and every trailing c removed
StrStrip(s, c) == RStrip(LStrip(s, c), c)


(***************************************************************************)
(* CROS_CONFIG_RE and the lookup tables.                                   *)
(***************************************************************************)
\* the character classes of CROS_CONFIG_RE
KverChars == Digits \cup {"."}
ArchChars == Lower \cup Digits \cup {"_"}
FlavChars == Lower \cup Digits \cup {"-", ".", "_"}
FragChars == Lower \cup Digits \cup {"-", "+"}

\* an unescaped '.' of the pattern: any character but a newline
AnyCharAt(s, i) == i <= Len(s) /\ Char(s, i) # "\n"

\* the pattern's  .flavour.config  matched at position i
SuffixAt(s, i) ==
    /\ AnyCharAt(s, i)
    /\ StartsAt(s, i + 1, "flavour")
    /\ AnyCharAt(s, i + 8)
    /\ StartsAt(s, i + 9, "config")

\* the length of the third group: the longest run of its characters from i3
\* on that  .flavour.config  follows, 0 when there is none
FlavLen(s, i3) ==
    The({IF K = {} THEN 0 ELSE Max(K) :
            K \in {{k \in 1..Span(s, i3, FlavChars) : SuffixAt(s, i3 + k)}}})

\* the optional fourth group at i4: '+' and the fragment characters after it,
\* None when no '+' and fragment character stand there
FragAt(s, i4) ==
    The({IF StartsAt(s, i4, "+") /\ n4 >= 1
         THEN Some(SubSeq(s, i4, i4 + n4)) ELSE None :
            n4 \in {Span(s, i4 + 1, FragChars)}})

NoMatch == [matched |-> FALSE]

\* CROS_CONFIG_RE.match(s): anchored at the start only.  Each group is greedy;
\* the third gives characters back until  .flavour.config  follows it.
\* i1, i2, i3 are where the groups start, n1, n2, n3 their lengths.
CROS_CONFIG_RE(s) ==
    IF ~StartsAt(s, 1, "cros://chromeos-") THEN NoMatch
    ELSE The({
        IF n1 < 1 \/ ~StartsAt(s, i1 + n1, "/") THEN NoMatch
        ELSE The({
            IF n2 < 1 \/ ~StartsAt(s, i2 + n2, "/") THEN NoMatch
            ELSE The({
                IF n3 < 1 THEN NoMatch
                ELSE [matched |-> TRUE,
                      kver |-> SubSeq(s, i1, i1 + n1 - 1),
                      arch |-> SubSeq(s, i2, i2 + n2 - 1),
                      flav |-> SubSeq(s, i3, i3 + n3 - 1),
                      frag |-> FragAt(s, i3 + n3 + Len(".flavour.config"))] :
                i3 \in {i2 + n2 + 1}, n3 \in {FlavLen(s, i2 + n2 + 1)}}) :
            i2 \in {i1 + n1 + 1}, n2 \in {Span(s, i1 + n1 + 1, ArchChars)}}) :
        i1 \in {Len("cros://chromeos-") + 1},
        n1 \in {Span(s, Len("cros://chromeos-") + 1, KverChars)}})

CROS_FLAVOURS ==
    "chromeos-amd-stoneyridge" :> "ston" @@
    "chromeos-intel-denverton" :> "denv" @@
    "chromeos-intel-pineview" :> "pine" @@
    "chromiumos-arm" :> "arm" @@
    "chromiumos-arm64" :> "arm64" @@
    "chromiumos-mediatek" :> "mtk" @@
    "chromiumos-qualcomm" :> "qcom" @@
    "chromiumos-rockchip" :> "rk32" @@
    "chromiumos-rockchip64" :> "rk64" @@
    "chromiumos-x86_64" :> "x86"

CROS_DEVICE_TYPES ==
    "hp-x360-12b-ca0500na-n4000-octopus_chromeos" :> "octopus-n4000" @@
    "hp-x360-12b-ca0010nr-n4020-octopus_chromeos" :> "octopus-n4020" @@
    "qemu_x86_64-uefi-chromeos" :> "qemu-x86"

\* table.get(key) or key
GetOr(table, key) ==
    IF key \in DOMAIN table /\ table[key] # "" THEN table[key] ELSE key

(***************************************************************************)
(* The helpers of LavaRuntime.  A helper that can raise returns either     *)
(* [err |-> name] or [err |-> "", val |-> result].                         *)
(***************************************************************************)
Ok(v) == [err |-> "", val |-> v]
Raise(e) == [err |-> e]

\* Faulty variant of ShortenFrag: only the first character, the leading '+',
\* is dropped.
ShortenFrag_first_only(frag) ==
    IF ~IsNone(frag) /\ Val(frag) # ""
    THEN StrReplace(Tail(Val(frag)), "+", "-") ELSE ""

\* frag.strip('+').replace('+', '-') if frag else ''
ShortenFrag(frag) ==
    IF ~IsNone(frag) /\ Val(frag) # ""
    THEN StrReplace(StrStrip(Val(frag), "+"), "+", "-") ELSE ""

\* Faulty variant of _shorten_cros_defconfig: the flavour is not looked up.
_shorten_cros_defconfig_no_lookup(defconfig) ==
    The({IF ~m.matched THEN Raise("AttributeError")
         ELSE Ok(StrJoin("-", <<m.arch, m.flav, m.kver, ShortenFrag(m.frag)>>)) :
            m \in {CROS_CONFIG_RE(defconfig)}})

\* CROS_CONFIG_RE.match(defconfig).groups() raises AttributeError on no match
_shorten_cros_defconfig(defconfig) ==
    The({IF ~m.matched THEN Raise("AttributeError")
         ELSE Ok(StrJoin("-", <<m.arch, GetOr(CROS_FLAVOURS, m.flav), m.kver,
                                 ShortenFrag(m.frag)>>)) :
            m \in {CROS_CONFIG_RE(defconfig)}})

\* Faulty variant of _shorten_cros_device_type: no lookup.
_shorten_cros_device_type_no_lookup(device_type) == device_type

_shorten_cros_device_type(device_type) == GetOr(CROS_DEVICE_TYPES, device_type)


\* the part of params one name component needs
HasKeys(d, keys) == keys \subseteq DOMAIN d

\* Faulty variant of _shorten_cros_name: the synthesized name is appended to
\* the name params already holds.
_shorten_cros_name_appended(params) ==
    IF ~HasKeys(params, {"defconfig_full"}) THEN Raise("KeyError")
    ELSE IF StartsAt(params["defconfig_full"], 1, "cros:")
    THEN IF ~HasKeys(params, {"tree", "git_branch", "git_describe", "arch"})
         THEN Raise("KeyError")
         ELSE The({
                  IF d.err # "" THEN d
                  ELSE IF ~HasKeys(params, {"build_environment",
                                            "device_type", "plan"})
                  THEN Raise("KeyError")
                  ELSE Ok(StrReplace(StrJoin("-",
                          (IF HasKeys(params, {"name"})
                           THEN <<params["name"]>> ELSE <<>>) \o <<
                          params["tree"],
                          params["git_branch"],
                          params["git_describe"],
                          params["arch"],
                          d.val,
                          params["build_environment"],
                          _shorten_cros_device_type(params["device_type"]),
                          params["plan"] >>), "/", "-")) :
                  d \in {_shorten_cros_defconfig(params["defconfig_full"])}})
    ELSE IF ~HasKeys(params, {"name"}) THEN Raise("KeyError")
    ELSE Ok(params["name"])

\* _shorten_cros_name: the tuple's items are evaluated in order, so a missing
\* key before the defconfig raises KeyError before the pattern is tried
_shorten_cros_name(params) ==
    IF ~HasKeys(params, {"defconfig_full"}) THEN Raise("KeyError")
    ELSE IF StartsAt(params["defconfig_full"], 1, "cros:")
    THEN IF ~HasKeys(params, {"tree", "git_branch", "git_describe", "arch"})
         THEN Raise("KeyError")
         ELSE The({
                  IF d.err # "" THEN d
                  ELSE IF ~HasKeys(params, {"build_environment",
                                            "device_type", "plan"})
                  THEN Raise("KeyError")
                  ELSE Ok(StrReplace(StrJoin("-", <<
                          params["tree"],
                          params["git_branch"],
                          params["git_describe"],
                          params["arch"],
                          d.val,
                          params["build_environment"],
                          _shorten_cros_device_type(params["device_type"]),
                          params["plan"] >>), "/", "-")) :
                  d \in {_shorten_cros_defconfig(params["defconfig_full"])}})
    ELSE IF ~HasKeys(params, {"name"}) THEN Raise("KeyError")
    ELSE Ok(params["name"])

\* job_file_name: '.'.join([params['name'], 'yaml'])
job_file_name(params) ==
    IF ~HasKeys(params, {"name"}) THEN Raise("KeyError")
    ELSE Ok(StrJoin(".", <<params["name"], "yaml">>))

\* Faulty variant of TruncDiv: floor division.
TruncDiv_floor(n, d) == n \div d

\* int(n / d) for d > 0: Python's int() truncates toward zero
TruncDiv(n, d) == IF n >= 0 THEN n \div d ELSE -((-n) \div d)

\* _get_priority.  int((priority * prio_range / 100) + prio_min) is
\* int((priority * prio_range + 100 * prio_min) / 100).
_get_priority(plan_params, cfg) ==
    LET priority == IF "priority" \in DOMAIN plan_params
                    THEN plan_params["priority"] ELSE 20
    IN  IF ~IsNone(cfg.priority) /\ Val(cfg.priority) # 0
        THEN TruncDiv(priority * Val(cfg.priority), 100)
        ELSE IF ~IsNone(cfg.priority_max) /\ ~IsNone(cfg.priority_min)
        THEN LET prio_range == Val(cfg.priority_max) - Val(cfg.priority_min)
                 prio_min == Val(cfg.priority_min)
             IN  TruncDiv(priority * prio_range + 100 * prio_min, 100)
        ELSE priority

\* Runtime._alias_device_type: the alias table is empty
_alias_device_type(device_type) == device_type

\* dict.get(key), None when the key is missing
DictGet(d, key) == IF key \in DOMAIN d THEN Some(d[key]) ELSE None

\* Faulty variant of NoCallbackId: only a missing id counts.
NoCallbackId_missing_only(callback_id) == IsNone(callback_id)

\* not callback_id: None and the empty str are false, every other str is true
NoCallbackId(callback_id) == IsNone(callback_id) \/ Val(callback_id) = ""

\* Faulty variant of lava_cb: the two names exchanged.
lava_cb_exchanged(plan) == IF plan = "boot" THEN "test" ELSE "boot"

\* 'boot' if params['plan'] == 'boot' else 'test'
lava_cb(plan) == IF plan = "boot" THEN "boot" ELSE "test"

\* _add_callback_params: returns the params mapping as the call leaves it,
\* with the exception raised, if any.  callback_type, which may be None, is
\* stored as the optional it is; callback_id is a str where it is stored.
_add_callback_params(params, opts) ==
    LET callback_id == DictGet(opts, "id")
        callback_type == DictGet(opts, "type")
        named == IF callback_type = Some("kernelci")
                 THEN ("callback_name" :>
                          StrJoin("/", <<"lava", lava_cb(params["plan"])>>))
                      @@ params
                 ELSE params
    IN  IF NoCallbackId(callback_id)
        THEN [err |-> "", params |-> params]
        ELSE IF callback_type = Some("kernelci") /\ ~HasKeys(params, {"plan"})
        THEN [err |-> "KeyError", params |-> params]
        ELSE IF ~HasKeys(opts, {"url"}) \/ ~HasKeys(opts, {"dataset"})
        THEN [err |-> "KeyError", params |-> named]
        ELSE [err |-> "",
              params |-> ("callback" :> Val(callback_id) @@
                          "callback_url" :> opts["url"] @@
                          "callback_dataset" :> opts["dataset"] @@
                          "callback_type" :> callback_type) @@ named]

\* Faulty variant of generate: the derived values are stored one by one, so
\* those before the name are already stored when computing the name fails.
generate_piecewise(params, cfg, plan_params, callback_opts, template_found) ==
    IF ~HasKeys(params, {"base_device_type"})
    THEN [err |-> "KeyError", params |-> params]
    ELSE The({
        IF name.err # ""
        THEN [err |-> name.err,
              params |-> ("queue_timeout" :> cfg.queue_timeout @@
                          "lab_name" :> cfg.name @@
                          "base_device_type" :> _alias_device_type(base_name) @@
                          "priority" :> priority) @@ params]
        ELSE The({
            IF cb.err # "" THEN cb
            ELSE IF ~template_found
            THEN [err |-> "TemplateNotFound", params |-> cb.params]
            ELSE [err |-> "", params |-> cb.params] :
            cb \in {IF DOMAIN callback_opts # {}
                    THEN _add_callback_params(merged, callback_opts)
                    ELSE [err |-> "", params |-> merged] :
                    merged \in {("queue_timeout" :> cfg.queue_timeout @@
                                 "lab_name" :> cfg.name @@
                                 "base_device_type" :>
                                     _alias_device_type(base_name) @@
                                 "priority" :> priority @@
                                 "name" :> name.val) @@ params}}}) :
        base_name \in {params["base_device_type"]},
        priority \in {_get_priority(plan_params, cfg)},
        name \in {_shorten_cros_name(params)}})

\* generate: the params mapping as the call leaves it, with the exception
\* raised, if any.  The dict handed to params.update is built before update
\* runs.  template_found: whether the jinja2 environment finds and renders the
\* template; the rendered text itself is not modelled.
generate(params, cfg, plan_params, callback_opts, template_found) ==
    IF ~HasKeys(params, {"base_device_type"})
    THEN [err |-> "KeyError", params |-> params]
    ELSE The({
        IF name.err # "" THEN [err |-> name.err, params |-> params]
        ELSE The({
            IF cb.err # "" THEN cb
            ELSE IF ~template_found
            THEN [err |-> "TemplateNotFound", params |-> cb.params]
            ELSE [err |-> "", params |-> cb.params] :
            cb \in {IF DOMAIN callback_opts # {}
                    THEN _add_callback_params(merged, callback_opts)
                    ELSE [err |-> "", params |-> merged] :
                    merged \in {("queue_timeout" :> cfg.queue_timeout @@
                                 "lab_name" :> cfg.name @@
                                 "base_device_type" :>
                                     _alias_device_type(base_name) @@
                                 "priority" :> priority @@
                                 "name" :> name.val) @@ params}}}) :
        base_name \in {params["base_device_type"]},
        priority \in {_get_priority(plan_params, cfg)},
        name \in {_shorten_cros_name(params)}})

(***************************************************************************)
(* State.                                                                  *)
(*   config         self.config, the runtime configuration (never written) *)
(*   plan_params    plan_config.params (never written)                     *)
(*   params         the caller's params mapping, mutated in place          *)
(*   callback_opts  the callback options of the last generate call         *)
(*   pre            params as it was when the last generate call started   *)
(*   outcome        "NotCalled", "Returned", or the exception generate     *)
(*                  raised                                                 *)
(*   calls          number of generate calls made on params                *)
(*   first_name     params['name'] as the first generate call left it      *)
(*                  ({} when the key is missing)                           *)
(*   job_file       result of job_file_name since the last generate call   *)
(*   prio           result of a direct _get_priority call                  *)
(*   short          result of a direct _shorten_cros_defconfig call        *)
(***************************************************************************)
VARIABLES config, plan_params, params, callback_opts, pre, outcome, calls,
          first_name, job_file, prio, short

vars == <<config, plan_params, params, callback_opts, pre, outcome, calls,
          first_name, job_file, prio, short>>

NotCalled == [err |-> "NotCalled"]

\* d[key] as an optional value: {} when the key is missing
Lookup(d, key) == IF key \in DOMAIN d THEN {d[key]} ELSE {}

\* the mapping d without the keys in gone
Without(d, gone) == [k \in DOMAIN d \ gone |-> d[k]]

(***************************************************************************)
(* Inputs.                                                                 *)
(***************************************************************************)
Config(prio_scale, prio_min, prio_max) ==
    [priority |-> prio_scale, priority_min |-> prio_min,
     priority_max |-> prio_max, queue_timeout |-> 10, name |-> "lab-x"]

Params(defconfig_full, device_type, plan) ==
    "base_device_type" :> "qemu" @@
    "defconfig_full" :> defconfig_full @@
    "tree" :> "mainline" @@
    "git_branch" :> "staging/next" @@
    "git_describe" :> "v6.1-rc1" @@
    "arch" :> "x86_64" @@
    "build_environment" :> "gcc-10" @@
    "device_type" :> device_type @@
    "plan" :> plan @@
    "name" :> "baseline/qemu"

FragAlphabet == {"a", "+", "-"}

RECURSIVE Words(_)
Words(n) ==
    IF n = 0 THEN {""} ELSE {w \o c : w \in Words(n - 1), c \in FragAlphabet}

\* fragments that begin like the pattern's  .flavour.config  read with its
\* unescaped dots ('+flavour', one character, 'config'), and near misses
FlavourLikeFragments ==
    {"+flavour-config",
     "+flavour+config",
     "+flavourxconfig",
     "+flavour-config+",
     "+flavour-config+a",
     "+flavour-config++a+",
     "+flavour-configa",
     "+flavour-config-a+b",
     "+flavour-config+flavour-config",
     "+flavour-confi",
     "+flavour--config",
     "+a+flavour-config",
     "+flavor-config"}

\* no fragment, or '+' and a word of 1..MaxFragLen fragment characters, or one
\* of the fragments above
Fragments ==
    {""} \cup {"+" \o w : w \in UNION {Words(n) : n \in 1..MaxFragLen}}
         \cup FlavourLikeFragments

Kvers == {"5.10", "6.1"}
Archs == {"x86_64", "arm64"}
\* the ten flavours of the table and two that are not in it
Flavours == DOMAIN CROS_FLAVOURS \cup {"foo", "generic.v2"}

CrosDefconfig(kver, arch, flav, frag) ==
    "cros://chromeos-" \o kver \o "/" \o arch \o "/" \o flav
        \o ".flavour.config" \o frag

WellFormedDefconfigs ==
    {CrosDefconfig(k, a, f, g) :
        k \in Kvers, a \in Archs, f \in Flavours, g \in Fragments}

OtherDefconfigs ==
    {"defconfig",
     "x86_64_defconfig+kselftest",
     "cros:foo",
     "cros://chromeos-5.10/x86_64/foo",
     "cros://chromeos-5.10/x86_64/foo.config",
     "cros://chromeos-5.10/x86_64/foo-flavour-config",
     "cros://chromeos-5.10/x86_64/foo.flavour.config.old",
     "cros://chromeos-5.10/x86_64/foo.flavour.config+",
     "cros://chromeos-5.10/x86_64/foo.flavour.config+a_b",
     "cros://chromeos-5.10/x86_64/foo.flavour\nconfig",
     "cros://chromeos-5.15/chromiumos-arm64/foo.flavour.config+bar",
     "cros://chromeos-5.15/arm64/chromiumos-arm64.flavour.config+bar",
     "cros://chromeos-/x86_64/foo.flavour.config",
     "xcros://chromeos-5.10/x86_64/foo.flavour.config"}

GenerateDefconfigs ==
    {"defconfig",
     "cros:foo",
     "cros://chromeos-5.10/x86_64/foo-flavour-config",
     "cros://chromeos-5.10/x86_64/foo.flavour.config.old",
     "cros://chromeos-5.15/chromiumos-arm64/foo.flavour.config+bar",
     "cros://chromeos-5.15/arm64/chromiumos-arm64.flavour.config+bar",
     "cros://chromeos-5.10/x86_64/chromeos-intel-pineview.flavour.config"}

\* keys the caller may have left out
MissingKeys == {{"tree"}, {"name"}, {"base_device_type"}}

\* the params mappings generate is called on: every defconfig with a known
\* device type booting and an unknown one running a test plan, and mappings
\* with a key left out
GenerateParams ==
    {Params(d, "qemu_x86_64-uefi-chromeos", "boot") : d \in GenerateDefconfigs}
    \cup {Params(d, "foo-bar", "login") : d \in GenerateDefconfigs}
    \cup {Without(Params(d, "foo-bar", "login"), gone) :
              d \in {"defconfig",
                     "cros://chromeos-5.15/arm64/chromiumos-arm64.flavour.config+bar"},
              gone \in MissingKeys}

CallbackOpts ==
    {<<>>,
     "id" :> "cb1" @@ "type" :> "kernelci" @@ "url" :> "http://cb"
         @@ "dataset" :> "all",
     "id" :> "cb2" @@ "type" :> "custom" @@ "url" :> "http://cb2"
         @@ "dataset" :> "minimal",
     "id" :> "cb3" @@ "url" :> "http://cb3" @@ "dataset" :> "all",
     "id" :> "" @@ "type" :> "kernelci" @@ "url" :> "http://cb"
         @@ "dataset" :> "all",
     "type" :> "kernelci" @@ "url" :> "http://cb" @@ "dataset" :> "all",
     "id" :> "cb4" @@ "type" :> "kernelci" @@ "dataset" :> "all",
     "id" :> "None" @@ "type" :> "kernelci" @@ "url" :> "http://cb"
         @@ "dataset" :> "all"}

Priorities == 0..100
Optional(S) == {{}} \cup {{v} : v \in S}
Levels == (0 - MaxLevel)..MaxLevel

GenerateConfigs == {Config({50}, {}, {}), Config({}, {0}, {40})}

\* every flat scale with a few ranges, and every range with no flat scale or
\* a flat scale of 0
PriorityConfigs ==
    {Config(s, r[1], r[2]) :
        s \in Optional(Priorities),
        r \in {<<{}, {}>>, <<{2}, {5}>>, <<{}, {5}>>}}
    \cup
    {Config(s, mn, mx) :
        s \in {{}, {0}}, mn \in Optional(Levels), mx \in Optional(Levels)}

PlanParams(S) == {<<>>} \cup {"priority" :> p : p \in S}

(***************************************************************************)
(* Initial states: the runtime, the plan and the caller's params before    *)
(* any call.                                                               *)
(***************************************************************************)
InitWith(configs, plans, mappings) ==
    /\ config \in configs
    /\ plan_params \in plans
    /\ params \in mappings
    /\ callback_opts = <<>>
    /\ pre = params
    /\ outcome = "NotCalled"
    /\ calls = 0
    /\ first_name = {}
    /\ job_file = NotCalled
    /\ prio = {}
    /\ short = NotCalled

Init ==
    InitWith(GenerateConfigs, {"priority" :> 90}, GenerateParams)

InitPriority ==
    InitWith(PriorityConfigs, PlanParams(Priorities),
             {Params("defconfig", "foo-bar", "boot")})

InitDefconfig ==
    InitWith({Config({}, {}, {})}, {<<>>},
             {Params(d, "foo-bar", "boot") :
                 d \in WellFormedDefconfigs \cup OtherDefconfigs})

(***************************************************************************)
(* Actions.                                                                *)
(***************************************************************************)
\* one call of generate on params
Generate(opts, template_found) ==
    /\ calls < MaxCalls
    /\ \E r \in {generate(params, config, plan_params, opts, template_found)} :
           /\ params' = r.params
           /\ outcome' = IF r.err = "" THEN "Returned" ELSE r.err
           /\ first_name' = IF calls = 0 THEN Lookup(r.params, "name")
                            ELSE first_name
    /\ pre' = params
    /\ callback_opts' = opts
    /\ calls' = calls + 1
    /\ job_file' = NotCalled
    /\ UNCHANGED <<config, plan_params, prio, short>>

\* one call of job_file_name on params
JobFileName ==
    /\ job_file = NotCalled
    /\ job_file' = job_file_name(params)
    /\ UNCHANGED <<config, plan_params, params, callback_opts, pre, outcome,
                   calls, first_name, prio, short>>

\* one direct call of _get_priority
GetPriority ==
    /\ prio = {}
    /\ prio' = {_get_priority(plan_params, config)}
    /\ UNCHANGED <<config, plan_params, params, callback_opts, pre, outcome,
                   calls, first_name, job_file, short>>

\* one direct call of _shorten_cros_defconfig on params['defconfig_full']
ShortenCrosDefconfig ==
    /\ short = NotCalled
    /\ short' = _shorten_cros_defconfig(params["defconfig_full"])
    /\ UNCHANGED <<config, plan_params, params, callback_opts, pre, outcome,
                   calls, first_name, job_file, prio>>

Next ==
    \/ \E opts \in CallbackOpts, template_found \in BOOLEAN :
           Generate(opts, template_found)
    \/ JobFileName

Spec == Init /\ [][Next]_vars

SpecPriority == InitPriority /\ [][GetPriority]_vars

SpecDefconfig == InitDefconfig /\ [][ShortenCrosDefconfig]_vars


(***************************************************************************)
(* Priority scaling.                                                       *)
(***************************************************************************)
\* the plan's nominal priority p
PlanPriority ==
    IF "priority" \in DOMAIN plan_params THEN plan_params["priority"] ELSE 20

\* 100 times the exact value of  p * (max - min) / 100 + min
Scaled100 ==
    PlanPriority * (Val(config.priority_max) - Val(config.priority_min))
        + 100 * Val(config.priority_min)

\* _get_priority was called with both priority_min and priority_max set,
\* min <= max, and no flat scale factor
RangeMode ==
    /\ prio # {}
    /\ IsNone(config.priority)
    /\ ~IsNone(config.priority_min) /\ ~IsNone(config.priority_max)
    /\ Val(config.priority_min) <= Val(config.priority_max)

\* C1: whenever the runtime config defines a flat scale factor s in 0..100
\* (s = 0 included), _get_priority returns floor(p * s / 100), a value in
\* [0, p], whether or not priority_min and priority_max are set.
C1_FlatScale ==
    (prio # {} /\ ~IsNone(config.priority)) =>
        /\ Val(prio) = (PlanPriority * Val(config.priority)) \div 100
        /\ Val(prio) \in 0..PlanPriority

\* C2 as stated: in range mode the effective priority is
\* floor(p * (max - min) / 100 + min) and lies in [min, max].
C2_RangeFloor ==
    RangeMode =>
        /\ Val(prio) = Scaled100 \div 100
        /\ Val(prio) \in Val(config.priority_min)..Val(config.priority_max)

\* C2 amended: in range mode the effective priority is
\* p * (max - min) / 100 + min rounded toward zero (its floor when that value
\* is >= 0, its ceiling when it is negative) and lies in [min, max].
C2_RangeTruncated ==
    RangeMode =>
        /\ Scaled100 >= 0 =>
               /\ 100 * Val(prio) <= Scaled100
               /\ Scaled100 < 100 * (Val(prio) + 1)
        /\ Scaled100 < 0 =>
               /\ 100 * (Val(prio) - 1) < Scaled100
               /\ Scaled100 <= 100 * Val(prio)
        /\ Val(prio) \in Val(config.priority_min)..Val(config.priority_max)

\* range mode with a negative, non-integer exact value: floor and ceiling differ
C2_Witness ==
    /\ RangeMode
    /\ Scaled100 < 0
    /\ Scaled100 % 100 # 0
    /\ Val(prio) = (Scaled100 \div 100) + 1

(***************************************************************************)
(* The CrOS defconfig pattern.                                             *)
(***************************************************************************)
\* s is exactly
\*   cros://chromeos-<kernel-version>/<segment>/<config-name>.flavour.config
\* optionally followed by '+' and fragment characters up to the end of s
WellFormedCros(s) ==
    /\ StartsAt(s, 1, "cros://chromeos-")
    /\ \E i1 \in {Len("cros://chromeos-") + 1} :
       \E n1 \in {Span(s, i1, KverChars)} :
        /\ n1 >= 1
        /\ StartsAt(s, i1 + n1, "/")
        /\ \E i2 \in {i1 + n1 + 1} :
           \E n2 \in {Span(s, i2, ArchChars)} :
            /\ n2 >= 1
            /\ StartsAt(s, i2 + n2, "/")
            /\ \E i3 \in {i2 + n2 + 1} :
               \E n3 \in 1..Span(s, i3, FlavChars) :
               \E i4 \in {i3 + n3 + Len(".flavour.config")} :
                /\ StartsAt(s, i3 + n3, ".flavour.config")
                /\ \/ i4 = Len(s) + 1
                   \/ /\ StartsAt(s, i4, "+")
                      /\ i4 + 1 <= Len(s)
                      /\ i4 + 1 + Span(s, i4 + 1, FragChars) = Len(s) + 1

\* every key generate reads before the pattern is tried was in params
NameKeysGiven ==
    HasKeys(pre, {"base_device_type", "defconfig_full", "tree", "git_branch",
                  "git_describe", "arch"})

\* C3: for every defconfig_full that starts with 'cros:' and is not exactly of
\* the CrOS form, generate fails with the malformed-config-name error and
\* neither returns nor stores a job name.
C3_MalformedRaises ==
    (/\ calls >= 1
     /\ NameKeysGiven
     /\ StartsAt(pre["defconfig_full"], 1, "cros:")
     /\ ~WellFormedCros(pre["defconfig_full"])) =>
        /\ outcome = "AttributeError"
        /\ Lookup(params, "name") = Lookup(pre, "name")

\* the argument of the direct _shorten_cros_defconfig call
Defconfig == params["defconfig_full"]

ExampleKvers == Kvers \cup {"5.15"}
ExampleFragments == Fragments \cup {"+bar"}

CrosHead(kver, segment, config_name) ==
    "cros://chromeos-" \o kver \o "/" \o segment \o "/" \o config_name
        \o ".flavour.config"

\* the <<kernel version, segment, config name, fragment>> of Defconfig, with
\* the segment and the config name taken from the given sets
DefconfigParts(segments, config_names) ==
    {<<q[1], q[2], q[3], SubSeq(Defconfig, Len(CrosHead(q[1], q[2], q[3])) + 1,
                                Len(Defconfig))>> :
        q \in {q \in ExampleKvers \X segments \X config_names :
                  /\ StartsAt(Defconfig, 1, CrosHead(q[1], q[2], q[3]))
                  /\ SubSeq(Defconfig, Len(CrosHead(q[1], q[2], q[3])) + 1,
                            Len(Defconfig)) \in ExampleFragments}}

Contains(s, sub) == \E i \in 1..Len(s) : StartsAt(s, i, sub)

\* C4 as stated: the path segment after the kernel version is the flavour; its
\* short code (or the segment itself) and the kernel version appear in the
\* result as '-<flavour>-<kernel-version>-', and the example yields
\* '<arch>-arm64-5.15-bar'.
C4_SegmentIsFlavour ==
    short # NotCalled =>
        \A q \in DefconfigParts(Archs \cup {"chromiumos-arm64"},
                                Flavours) :
            /\ short.err = ""
            /\ Contains(short.val,
                        "-" \o GetOr(CROS_FLAVOURS, q[2]) \o "-" \o q[1] \o "-")
            /\ q = <<"5.15", "chromiumos-arm64", "foo", "+bar">> =>
                   Contains(short.val, "-arm64-5.15-bar")

\* the text after '.flavour.config' begins with '+flavour', one more
\* character and 'config': 15 characters that the pattern, its dots standing
\* for any character, takes for the suffix
SuffixLike(text) ==
    /\ Len(text) >= Len(".flavour.config")
    /\ SubSeq(text, 1, 8) = "+flavour"
    /\ SubSeq(text, 10, 15) = "config"

\* the flavour of q: the config name, followed by '.flavour.config' when the
\* text after it is suffix-like
FlavourOf(q) ==
    IF SuffixLike(q[4]) THEN q[3] \o ".flavour.config" ELSE q[3]

\* the fragment of q: the text after '.flavour.config'; when that text is
\* suffix-like, what follows its first 15 characters if that is a '+' and at
\* least one more character, and no fragment otherwise
FragmentOf(q) ==
    IF ~SuffixLike(q[4]) THEN q[4]
    ELSE IF Len(q[4]) >= 17 /\ SubSeq(q[4], 16, 16) = "+"
    THEN SubSeq(q[4], 16, Len(q[4]))
    ELSE ""

\* '<arch>-<short code of the flavour, or the flavour>-<kernel-version>-'
ShortHead(q) ==
    q[2] \o "-" \o GetOr(CROS_FLAVOURS, FlavourOf(q)) \o "-" \o q[1] \o "-"

\* C4 amended: for cros://chromeos-<kernel-version>/<arch>/<config-name>
\* .flavour.config[+<fragment>] the path segment after the kernel version is
\* the arch and the config name before '.flavour.config' is the flavour,
\* unless the fragment begins with '+flavour', one more character and
\* 'config': then the flavour is the config name followed by
\* '.flavour.config'.  The result is '<arch>-<flavour short code, or the
\* flavour when it is not in the table>-<kernel-version>-<fragment part>', the
\* fragment part being empty when there is no fragment; in particular
\* 'cros://chromeos-5.15/arm64/chromiumos-arm64.flavour.config+bar' yields
\* 'arm64-arm64-5.15-bar', and
\* 'cros://chromeos-5.15/chromiumos-arm64/foo.flavour.config+bar' fails.
C4_ConfigNameIsFlavour ==
    short # NotCalled =>
        /\ \A q \in DefconfigParts(Archs, Flavours) :
               /\ short.err = ""
               /\ StartsAt(short.val, 1, ShortHead(q))
               /\ FragmentOf(q) = "" => short.val = ShortHead(q)
               /\ q = <<"5.15", "arm64", "chromiumos-arm64", "+bar">> =>
                      short.val = "arm64-arm64-5.15-bar"
        /\ Defconfig =
               "cros://chromeos-5.15/chromiumos-arm64/foo.flavour.config+bar" =>
                   short.err = "AttributeError"

C4_Witness ==
    /\ Defconfig = "cros://chromeos-5.15/arm64/chromiumos-arm64.flavour.config+bar"
    /\ short = Ok("arm64-arm64-5.15-bar")

\* what follows '<arch>-<flavour>-<kernel-version>-' in the result
FragmentPart(q) ==
    SubSeq(short.val, Len(ShortHead(q)) + 1, Len(short.val))

\* what follows '<arch>-<flavour>-<kernel-version>-' in the result, the
\* flavour being the config name
FragmentPartAfterName(q) ==
    SubSeq(short.val,
           Len(q[2] \o "-" \o GetOr(CROS_FLAVOURS, q[3]) \o "-" \o q[1] \o "-") + 1,
           Len(short.val))

\* C5 as stated: the fragment part is the fragment with exactly its one
\* leading '+' removed and every other '+' replaced by '-', and is empty when
\* there is no fragment.
C5_OneLeadingPlus ==
    (short # NotCalled /\ short.err = "") =>
        \A q \in DefconfigParts(Archs, Flavours) :
            FragmentPartAfterName(q) = IF q[4] = "" THEN ""
                                       ELSE StrReplace(Tail(q[4]), "+", "-")

\* C5 amended: the fragment part is the fragment the pattern captures with
\* all its leading and all its trailing '+' removed and every other '+'
\* replaced by '-', and is empty when no fragment is captured.  The captured
\* fragment is the text after '.flavour.config', unless that text begins with
\* '+flavour', one more character and 'config': then it is what follows those
\* 15 characters if that is a '+' and at least one more character, and
\* nothing otherwise.
C5_AllOuterPlus ==
    (short # NotCalled /\ short.err = "") =>
        \A q \in DefconfigParts(Archs, Flavours) :
            FragmentPart(q) =
                IF FragmentOf(q) = "" THEN ""
                ELSE StrReplace(StrStrip(FragmentOf(q), "+"), "+", "-")

C5_Witness ==
    /\ Defconfig = CrosDefconfig("6.1", "arm64", "foo", "++a+")
    /\ short = Ok("arm64-foo-6.1-a")


(***************************************************************************)
(* generate.                                                               *)
(***************************************************************************)
HasChar(s, c) == \E i \in 1..Len(s) : Char(s, i) = c

\* C6: after a successful generate, params['name'] is, when defconfig_full
\* starts with 'cros:', the '-'-join of tree, git_branch, git_describe, arch,
\* shortened defconfig, build_environment, shortened device type and plan, in
\* this order, with every '/' replaced by '-' (so it holds no '/'); otherwise
\* it is the value params['name'] had before the call.
C6_JobName ==
    outcome = "Returned" =>
        IF StartsAt(pre["defconfig_full"], 1, "cros:")
        THEN /\ params["name"] =
                    StrReplace(
                        pre["tree"] \o "-" \o pre["git_branch"] \o "-"
                            \o pre["git_describe"] \o "-" \o pre["arch"] \o "-"
                            \o _shorten_cros_defconfig(pre["defconfig_full"]).val
                            \o "-" \o pre["build_environment"] \o "-"
                            \o GetOr(CROS_DEVICE_TYPES, pre["device_type"])
                            \o "-" \o pre["plan"],
                        "/", "-")
             /\ ~HasChar(params["name"], "/")
        ELSE params["name"] = pre["name"]

\* a CrOS job name with a '/' of git_branch replaced and a device type from
\* the table
C6_Witness ==
    /\ outcome = "Returned"
    /\ Lookup(pre, "git_branch") = {"staging/next"}
    /\ Lookup(pre, "device_type") = {"qemu_x86_64-uefi-chromeos"}
    /\ Lookup(params, "name") =
           {"mainline-staging-next-v6.1-rc1-x86_64-x86_64-pine-5.10--gcc-10-qemu-x86-boot"}

\* callback options with a non-empty id were passed to the last call
CallbackIdGiven ==
    "id" \in DOMAIN callback_opts /\ callback_opts["id"] # ""

\* C7: whenever callback options with a non-empty id are passed to a generate
\* call that returns, params holds callback, callback_url, callback_dataset
\* and callback_type from the options; for type 'kernelci' callback_name is
\* 'lava/boot' exactly when the plan is 'boot' and 'lava/test' otherwise; for
\* any other type callback_name is as it was before the call.
C7_CallbackParams ==
    (outcome = "Returned" /\ CallbackIdGiven) =>
        /\ Lookup(params, "callback") = Lookup(callback_opts, "id")
        /\ Lookup(params, "callback_url") = Lookup(callback_opts, "url")
        /\ Lookup(params, "callback_dataset") = Lookup(callback_opts, "dataset")
        /\ Lookup(params, "callback_type") = {Lookup(callback_opts, "type")}
        /\ IF Lookup(callback_opts, "type") = {"kernelci"}
           THEN /\ pre["plan"] = "boot" =>
                       Lookup(params, "callback_name") = {"lava/boot"}
                /\ pre["plan"] # "boot" =>
                       Lookup(params, "callback_name") = {"lava/test"}
           ELSE Lookup(params, "callback_name") = Lookup(pre, "callback_name")

\* a second call with another type keeps the callback_name the first one set
C7_Witness ==
    /\ outcome = "Returned"
    /\ calls = 2
    /\ Lookup(callback_opts, "id") = {"cb2"}
    /\ Lookup(params, "callback_type") = {{"custom"}}
    /\ Lookup(params, "callback") = {"cb2"}
    /\ Lookup(pre, "callback") = {"cb1"}
    /\ Lookup(params, "plan") = {"login"}
    /\ Lookup(params, "callback_name") = {"lava/test"}

\* C8: after any number of generate calls on the same params, with the same
\* runtime and plan configuration, params['name'] is what the first call left,
\* and job_file_name(params) is that name followed by '.yaml'.
C8_NameStable ==
    calls >= 1 =>
        /\ Lookup(params, "name") = first_name
        /\ (job_file # NotCalled /\ job_file.err = "") =>
               {job_file.val} = {n \o ".yaml" : n \in first_name}

\* the file name of a CrOS job after the second call
C8_Witness ==
    /\ calls = 2
    /\ outcome = "Returned"
    /\ job_file =
           Ok("mainline-staging-next-v6.1-rc1-x86_64-x86_64-pine-5.10--gcc-10-qemu-x86-boot.yaml")

DerivedKeys ==
    {"queue_timeout", "lab_name", "base_device_type", "priority", "name"}

CallbackKeys ==
    {"callback", "callback_url", "callback_dataset", "callback_type",
     "callback_name"}

\* C9: generate changes in params only queue_timeout, lab_name,
\* base_device_type, priority and name, and the callback keys only when
\* callback options with a non-empty id are given; every other key, present
\* or missing, is as before the call.
C9_Frame ==
    calls >= 1 =>
        \E written \in {DerivedKeys \cup
                           (IF CallbackIdGiven THEN CallbackKeys ELSE {})} :
            Without(params, written) = Without(pre, written)

\* a call with an empty id leaves the callback keys of an earlier call alone
C9_Witness ==
    /\ calls = 2
    /\ outcome = "Returned"
    /\ Lookup(callback_opts, "id") = {""}
    /\ Lookup(params, "callback") = {"cb1"}
    /\ Lookup(params, "callback_name") = {"lava/boot"}
    /\ Lookup(params, "priority") = {45}

\* the last generate call failed while computing the job name
NameFailed ==
    /\ calls >= 1
    /\ HasKeys(pre, {"base_device_type"})
    /\ _shorten_cros_name(pre).err # ""

\* C10: if generate fails while computing the job name (a 'cros:'
\* defconfig_full that does not match the pattern, or a missing name
\* component), params is exactly as it was before the call.
C10_NameFailureLeavesParams ==
    NameFailed =>
        /\ outcome = _shorten_cros_name(pre).err
        /\ params = pre

\* a defconfig that does not match, on params no call has written yet
C10_Witness ==
    /\ calls = 1
    /\ outcome = "AttributeError"
    /\ Lookup(params, "defconfig_full") =
           {"cros://chromeos-5.15/chromiumos-arm64/foo.flavour.config+bar"}
    /\ DOMAIN callback_opts # {}
    /\ "priority" \notin DOMAIN params

=============================================================================
